---- MODULE Spec2Model ----
(***************************************************************************)
(* State-machine model of threads_macos_compat.c: the mutex manager        *)
(* (mtx_init, mtx_lock, mtx_trylock, mtx_timedlock, mtx_unlock) over one   *)
(* pthread mutex shared by NThreads threads, and the thread launcher       *)
(* (thrd_create, wrap_thread_func, thrd_join) over a heap of result boxes. *)
(* The pthread, clock, sleep and malloc primitives are the environment:    *)
(* their outcomes are the inputs of the actions.                           *)
(***************************************************************************)
EXTENDS Integers, Sequences, FiniteSets, TLC

(* ------------------------------------------------------------------ *)
(* Bounds of the model                                                  *)
(* ------------------------------------------------------------------ *)
\* number of threads sharing the mutex
NThreads == 2
\* deepest nesting of acquisitions of the recursive mutex that is explored
MaxNest == 2
\* number of result boxes the heap hands out in one run
MaxBoxes == 2
\* number of thrd_t variables the launching code uses
MaxHandles == 2

(* ------------------------------------------------------------------ *)
(* Program constants                                                    *)
(* ------------------------------------------------------------------ *)
thrd_success == 0
thrd_error == 1
thrd_nomem == 2
thrd_timedout == 3
\* used by mtx_trylock; the header under src/ does not define it
thrd_busy == 4

mtx_plain == 1
mtx_recursive == 2

\* errno values the code tests for or that stand for "any other error"
EBUSY == 16
EINVAL == 22
EPERM == 1

\* the null pointer; result boxes are numbered from 1
NULL == 0
\* sizeof(wrapped_thread_t): two pointers and an int, padded
SizeofWrapped == 24

\* base of timespec_get; its return value on success
TIME_UTC == 1

THREADS_COMPAT_TIMED_LOCK_CHECK_INTERVAL_NANOS == 1000
THREADS_COMPAT_NANOS_PER_SECOND == 1000000000
THREADS_COMPAT_TIMED_LOCK_CHECK_INTERVAL_FULL_SECONDS ==
    THREADS_COMPAT_TIMED_LOCK_CHECK_INTERVAL_NANOS \div THREADS_COMPAT_NANOS_PER_SECOND
THREADS_COMPAT_TIMED_LOCK_CHECK_INTERVAL_NANOSECOND_PART ==
    THREADS_COMPAT_TIMED_LOCK_CHECK_INTERVAL_NANOS % THREADS_COMPAT_NANOS_PER_SECOND

(* ------------------------------------------------------------------ *)
(* Time values                                                          *)
(* ------------------------------------------------------------------ *)
\* struct timespec
Timespec(s, n) == [tv_sec |-> s, tv_nsec |-> n]
ZeroTime == Timespec(0, 0)

\* the deadlines a caller passes to mtx_timedlock
Deadlines ==
    { Timespec(0, 5000), Timespec(1, 500), Timespec(1000, 5000),
      Timespec(1700000000, 500) }

\* the readings timespec_get gives of the wall clock (it may be set back between
\* two readings)
Instants ==
    { Timespec(0, 999999200), Timespec(1, 0), Timespec(1, 500), Timespec(1000, 1),
      Timespec(1000, 4500), Timespec(1000, 5000), Timespec(1700000000, 0),
      Timespec(1700000000, 600) }

\* a < b on normalised time values
TimeBefore(a, b) ==
    \/ a.tv_sec < b.tv_sec
    \/ a.tv_sec = b.tv_sec /\ a.tv_nsec < b.tv_nsec

\* timespec_is_greater_than with the last comparison not strict
timespec_is_greater_or_equal(a, b) ==
    IF a.tv_sec > b.tv_sec THEN TRUE
    ELSE IF a.tv_sec < b.tv_sec THEN FALSE
    ELSE a.tv_nsec >= b.tv_nsec

\* timespec_is_greater_than comparing the seconds only
timespec_is_greater_than_seconds_only(a, b) == a.tv_sec > b.tv_sec

\* static inline bool timespec_is_greater_than(a, b)
timespec_is_greater_than(a, b) ==
    IF a.tv_sec > b.tv_sec THEN TRUE
    ELSE IF a.tv_sec < b.tv_sec THEN FALSE
    ELSE a.tv_nsec > b.tv_nsec

(* ------------------------------------------------------------------ *)
(* State                                                                *)
(* ------------------------------------------------------------------ *)
VARIABLES
    \* the pthread mutex: its type ("none" before pthread_mutex_init), owner, lock count
    mtype, owner, count,
    \* the type argument of the mtx_init call that created the mutex (0 before)
    mkind,
    \* the deadline callers pass to mtx_timedlock
    time_point,
    \* per thread: where it is, what its last call returned, how many successful
    \* acquisitions it has not yet released
    pc, last, held,
    \* per thread: the locals of mtx_timedlock
    res, now, sleep_time, latest_full_sleep_start,
    \* what the last mtx_init call did with resources: attribute objects it
    \* initialised, attribute objects it destroyed, calls of pthread_mutex_init
    attr
    \* the heap of result boxes (wrapped_thread_t): "unused", "live" or "freed", the
    \* fields actual_func (as the value the entry point returns) and res, how often
    \* free was called on it and by which function; the next box malloc hands out
VARIABLES boxSt, boxFunc, boxRes, boxFrees, boxFreedBy, nextBox
    \* per result box, the accesses made to it in the order they were made: which
    \* function, whether it read, wrote or freed, and the state the spawned thread
    \* was in ("none": pthread_create has not created it)
VARIABLES boxAcc
    \* per thrd_t variable: the thread behind it, the value of the entry point given to
    \* thrd_create, the caller's result variable; what the launching code's last call
    \* of thrd_create or thrd_join returned
VARIABLES thr, entry, out, tret
    \* per thread: the duration argument of its thrd_sleep call, and the remaining
    \* argument (whether it is a non-null pointer, whether nanosleep has stored
    \* through it, and the value stored)
VARIABLES duration, remaining
    \* the condition variable: per thread blocked in pthread_cond_wait or
    \* pthread_cond_timedwait, what has ended its wait ("none": still waiting);
    \* the threads that were blocked in cnd_wait when cnd_broadcast was called and
    \* have not returned since; what the signalling context's last cnd_broadcast
    \* returned
VARIABLES wake, due, bcast

slpVars == <<duration, remaining>>

cndVars == <<wake, due, bcast>>

thrdVars == <<boxSt, boxFunc, boxRes, boxFrees, boxFreedBy, nextBox,
              thr, entry, out, tret, boxAcc>>

mtxVars == <<mtype, mkind, owner, count, time_point, pc, last, held,
             res, now, sleep_time, latest_full_sleep_start, attr>>

Threads == 1..NThreads
NoThread == 0

\* what a call returned: the function, its return value, the source line of the
\* return, and the value of the call of the underlying primitive it rests on
Ret(op, r, line, err) == [op |-> op, res |-> r, line |-> line, err |-> err]
NoRet == Ret("none", 0, 0, 0)

(* ------------------------------------------------------------------ *)
(* Helpers                                                              *)
(* ------------------------------------------------------------------ *)
\* the idiom "return err ? thrd_error : thrd_success"
ErrToResult(err) == IF err # 0 THEN thrd_error ELSE thrd_success

\* a thread leaves a function: its return value is recorded and, on success of an
\* acquisition (delta = 1) or of a release (delta = -1), its own count of
\* acquisitions it has not released follows
Return(t, ret, delta) ==
    /\ pc' = [pc EXCEPT ![t] = "idle"]
    /\ last' = [last EXCEPT ![t] = ret]
    /\ held' = [held EXCEPT ![t] = IF ret.res = thrd_success THEN @ + delta ELSE @]

\* the locals of mtx_timedlock outside a call of it
DropFrame(t) ==
    /\ res' = [res EXCEPT ![t] = 0]
    /\ now' = [now EXCEPT ![t] = ZeroTime]
    /\ sleep_time' = [sleep_time EXCEPT ![t] = ZeroTime]
    /\ latest_full_sleep_start' = [latest_full_sleep_start EXCEPT ![t] = ZeroTime]

\* pthread_mutex_lock / pthread_mutex_trylock can take the mutex for t at once
Available(t) == owner = NoThread \/ (owner = t /\ mtype = "recursive")

\* the nesting explored is capped: the owner of the recursive mutex at the cap
\* makes no further acquisition call
BelowCap(t) == ~(owner = t /\ count >= MaxNest)

\* pthread_mutex_trylock's return value for an initialised mutex
pthread_mutex_trylock(t) == IF Available(t) THEN 0 ELSE EBUSY

\* the mutex after pthread_mutex_lock/trylock returned err to t
Acquire(t, err) ==
    IF err = 0
    THEN owner' = t /\ count' = count + 1
    ELSE UNCHANGED <<owner, count>>

(* ------------------------------------------------------------------ *)
(* mtx_init                                                             *)
(* ------------------------------------------------------------------ *)
\* type & mtx_recursive
HasRecursiveBit(type) == (type \div mtx_recursive) % 2 = 1

\* mtx_init_outcome with the recursive type never set on the attribute object
mtx_init_never_recursive(type, e_attr, e_settype, e_init) ==
    IF type # mtx_plain /\ type # mtx_plain + mtx_recursive
    THEN [ret |-> Ret("mtx_init", thrd_error, 71, 0), mtype |-> "none"]
    ELSE IF e_attr # 0
    THEN [ret |-> Ret("mtx_init", thrd_error, 78, e_attr), mtype |-> "none"]
    ELSE [ret |-> Ret("mtx_init", ErrToResult(e_init), 100, e_init),
          mtype |-> IF e_init # 0 THEN "none" ELSE "plain"]

\* mtx_init(mutex, type) with the results e_attr, e_settype, e_init of
\* pthread_mutexattr_init, pthread_mutexattr_settype and pthread_mutex_init:
\* the return value and the type of the mutex it leaves ("none": not initialised)
mtx_init_outcome(type, e_attr, e_settype, e_init) ==
    IF type # mtx_plain /\ type # mtx_plain + mtx_recursive
    THEN [ret |-> Ret("mtx_init", thrd_error, 71, 0), mtype |-> "none"]
    ELSE IF e_attr # 0
    THEN [ret |-> Ret("mtx_init", thrd_error, 78, e_attr), mtype |-> "none"]
    ELSE IF HasRecursiveBit(type) /\ e_settype # 0
    THEN [ret |-> Ret("mtx_init", ErrToResult(e_settype), 100, e_settype), mtype |-> "none"]
    ELSE [ret |-> Ret("mtx_init", ErrToResult(e_init), 100, e_init),
          mtype |-> IF e_init # 0 THEN "none"
                    ELSE IF HasRecursiveBit(type) THEN "recursive" ELSE "plain"]

\* the resources a mtx_init call has handled when it returns
Resources(inits, destroys, mutex_inits) ==
    [inits |-> inits, destroys |-> destroys, mutex_inits |-> mutex_inits]

\* mtx_init_resources that returns where the code jumps to the end label
mtx_init_resources_early_return(type, e_attr, e_settype, e_init) ==
    IF type # mtx_plain /\ type # mtx_plain + mtx_recursive
    THEN Resources(0, 0, 0)
    ELSE IF e_attr # 0
    THEN Resources(0, 0, 0)
    ELSE IF HasRecursiveBit(type) /\ e_settype # 0
    THEN Resources(1, 0, 0)
    ELSE Resources(1, 1, 1)

\* mtx_init, the calls it makes on its way to the return: pthread_mutexattr_init
\* (line 75, an object exists only if it returned 0), pthread_mutex_init (line 89)
\* and pthread_mutexattr_destroy (line 95, behind the end label)
mtx_init_resources(type, e_attr, e_settype, e_init) ==
    IF type # mtx_plain /\ type # mtx_plain + mtx_recursive
    THEN Resources(0, 0, 0)
    ELSE IF e_attr # 0
    THEN Resources(0, 0, 0)
    ELSE IF HasRecursiveBit(type) /\ e_settype # 0
    THEN Resources(1, 1, 0)
    ELSE Resources(1, 1, 1)

mtx_init(t) ==
    /\ pc[t] = "idle"
    /\ mtype = "none"
    /\ \E type \in 0..3, e_attr \in {0, EINVAL}, e_settype \in {0, EINVAL}, e_init \in {0, EINVAL} :
         LET o == mtx_init_outcome(type, e_attr, e_settype, e_init) IN
         /\ mtype' = o.mtype
         /\ mkind' = IF o.ret.res = thrd_success THEN type ELSE mkind
         /\ attr' = mtx_init_resources(type, e_attr, e_settype, e_init)
         /\ Return(t, o.ret, 0)
    /\ UNCHANGED <<owner, count, time_point, res, now, sleep_time, latest_full_sleep_start>>
    /\ UNCHANGED <<cndVars, thrdVars, slpVars>>

(* ------------------------------------------------------------------ *)
(* mtx_lock                                                             *)
(* ------------------------------------------------------------------ *)
\* the mapping of pthread_mutex_lock's result
mtx_lock_ret(err) == Ret("mtx_lock", ErrToResult(err), 116, err)

\* the call: pthread_mutex_lock takes the mutex at once or blocks the thread.
\* A thread does not relock a mutex it holds that it created as plain (undefined
\* behaviour).
mtx_lock(t) ==
    /\ pc[t] = "idle"
    /\ mtype # "none"
    /\ ~(mkind = mtx_plain /\ owner = t)
    /\ BelowCap(t)
    /\ IF Available(t)
       THEN /\ Acquire(t, 0)
            /\ Return(t, mtx_lock_ret(0), 1)
       ELSE /\ pc' = [pc EXCEPT ![t] = "lock"]
            /\ last' = [last EXCEPT ![t] = NoRet]
            /\ UNCHANGED <<owner, count, held>>
    /\ UNCHANGED <<mtype, mkind, time_point, res, now, sleep_time, latest_full_sleep_start>>
    /\ UNCHANGED <<attr, cndVars, thrdVars, slpVars>>

\* the blocked pthread_mutex_lock gets the mutex and mtx_lock returns
mtx_lock_resume(t) ==
    /\ pc[t] = "lock"
    /\ Available(t)
    /\ Acquire(t, 0)
    /\ Return(t, mtx_lock_ret(0), 1)
    /\ UNCHANGED <<mtype, mkind, time_point, res, now, sleep_time, latest_full_sleep_start>>
    /\ UNCHANGED <<attr, cndVars, thrdVars, slpVars>>

(* ------------------------------------------------------------------ *)
(* mtx_trylock                                                          *)
(* ------------------------------------------------------------------ *)
\* mtx_trylock_ret with the busy case told apart from the errors only
mtx_trylock_ret_busy_ok(err) ==
    IF err # 0 /\ err # EBUSY
    THEN Ret("mtx_trylock", thrd_error, 129, err)
    ELSE Ret("mtx_trylock", thrd_success, 129, err)

\* mtx_trylock_ret without the busy case
mtx_trylock_ret_no_busy(err) == Ret("mtx_trylock", ErrToResult(err), 129, err)

\* the mapping of pthread_mutex_trylock's result
mtx_trylock_ret(err) ==
    IF err # 0 /\ err = EBUSY
    THEN Ret("mtx_trylock", thrd_busy, 123, err)
    ELSE Ret("mtx_trylock", ErrToResult(err), 129, err)

mtx_trylock(t) ==
    /\ pc[t] = "idle"
    /\ mtype # "none"
    /\ BelowCap(t)
    /\ \E err \in {pthread_mutex_trylock(t), EINVAL} :
         /\ Acquire(t, err)
         /\ Return(t, mtx_trylock_ret(err), 1)
    /\ UNCHANGED <<mtype, mkind, time_point, res, now, sleep_time, latest_full_sleep_start>>
    /\ UNCHANGED <<attr, cndVars, thrdVars, slpVars>>

(* ------------------------------------------------------------------ *)
(* mtx_unlock                                                           *)
(* ------------------------------------------------------------------ *)
\* the mapping of pthread_mutex_unlock's result
mtx_unlock_ret(err) == Ret("mtx_unlock", ErrToResult(err), 237, err)

\* pthread_mutex_unlock by the owner drops one level; on the recursive mutex a
\* thread that does not own it gets EPERM. A thread does not unlock a plain mutex
\* it does not hold (undefined behaviour).
mtx_unlock(t) ==
    /\ pc[t] = "idle"
    /\ mtype # "none"
    /\ owner = t \/ mtype = "recursive"
    /\ IF owner = t
       THEN /\ count' = count - 1
            /\ owner' = IF count = 1 THEN NoThread ELSE t
            /\ Return(t, mtx_unlock_ret(0), -1)
       ELSE /\ UNCHANGED <<owner, count>>
            /\ Return(t, mtx_unlock_ret(EPERM), -1)
    /\ UNCHANGED <<mtype, mkind, time_point, res, now, sleep_time, latest_full_sleep_start>>
    /\ UNCHANGED <<attr, cndVars, thrdVars, slpVars>>

(* ------------------------------------------------------------------ *)
(* mtx_timedlock                                                        *)
(* ------------------------------------------------------------------ *)
\* the check interval as a time value: the initial value of sleep_time
CheckInterval ==
    Timespec(THREADS_COMPAT_TIMED_LOCK_CHECK_INTERVAL_FULL_SECONDS,
             THREADS_COMPAT_TIMED_LOCK_CHECK_INTERVAL_NANOSECOND_PART)

\* a - b field by field, then one borrow of a second when the nanoseconds are
\* negative (the code's normalisation step)
BorrowOnce(s, n) ==
    IF n < 0 THEN Timespec(s - 1, n + THREADS_COMPAT_NANOS_PER_SECOND) ELSE Timespec(s, n)

\* latest_full_sleep_start as the code computes it from time_point; its tv_nsec is
\* initialised from time_point->tv_sec
LatestFullSleepStart(tp) ==
    BorrowOnce(tp.tv_sec - THREADS_COMPAT_TIMED_LOCK_CHECK_INTERVAL_FULL_SECONDS,
               tp.tv_sec - THREADS_COMPAT_TIMED_LOCK_CHECK_INTERVAL_NANOSECOND_PART)

\* SleepTime with the operands of the subtraction exchanged
SleepTimeSwapped(tp, lfss, n) ==
    IF ~timespec_is_greater_than(n, lfss)
    THEN CheckInterval
    ELSE BorrowOnce(n.tv_sec - tp.tv_sec, n.tv_nsec - tp.tv_nsec)

\* sleep_time as one iteration computes it from the clock reading n
SleepTime(tp, lfss, n) ==
    IF ~timespec_is_greater_than(n, lfss)
    THEN CheckInterval
    ELSE BorrowOnce(tp.tv_sec - n.tv_sec, tp.tv_nsec - n.tv_nsec)

TimedRet(r, line, err) == Ret("mtx_timedlock", r, line, err)

\* mtx_timedlock returns, res holding err: its locals go out of scope
TimedReturn(t, r, line, err) ==
    /\ Return(t, TimedRet(r, line, err), 1)
    /\ DropFrame(t)

\* entry: the locals are initialised and latest_full_sleep_start is checked.
\* A thread does not call it on a mutex it holds that it created as plain
\* (undefined behaviour).
mtx_timedlock(t) ==
    /\ pc[t] = "idle"
    /\ mtype # "none"
    /\ ~(mkind = mtx_plain /\ owner = t)
    /\ BelowCap(t)
    /\ LET lfss == LatestFullSleepStart(time_point) IN
       IF lfss.tv_nsec < 0
       THEN TimedReturn(t, thrd_error, 165, 0)
       ELSE IF lfss.tv_sec < 0
       THEN TimedReturn(t, thrd_error, 169, 0)
       ELSE /\ pc' = [pc EXCEPT ![t] = "tl_try"]
            /\ last' = [last EXCEPT ![t] = NoRet]
            /\ res' = [res EXCEPT ![t] = 0]
            /\ now' = [now EXCEPT ![t] = ZeroTime]
            /\ sleep_time' = [sleep_time EXCEPT ![t] = CheckInterval]
            /\ latest_full_sleep_start' = [latest_full_sleep_start EXCEPT ![t] = lfss]
            /\ UNCHANGED held
    /\ UNCHANGED <<mtype, mkind, owner, count, time_point>>
    /\ UNCHANGED <<attr, cndVars, thrdVars, slpVars>>

\* one acquisition attempt: res = pthread_mutex_trylock(mutex)
tl_try(t) ==
    /\ pc[t] = "tl_try"
    /\ \E err \in {pthread_mutex_trylock(t), EINVAL} :
         /\ Acquire(t, err)
         /\ IF err = 0
            THEN TimedReturn(t, thrd_success, 175, err)
            ELSE IF err # EBUSY
            THEN TimedReturn(t, thrd_error, 180, err)
            ELSE /\ pc' = [pc EXCEPT ![t] = "tl_clock"]
                 /\ res' = [res EXCEPT ![t] = err]
                 /\ UNCHANGED <<last, held, now, sleep_time, latest_full_sleep_start>>
    /\ UNCHANGED <<mtype, mkind, time_point>>
    /\ UNCHANGED <<attr, cndVars, thrdVars, slpVars>>

\* after a busy attempt: res = timespec_get(&now, TIME_UTC)
tl_clock(t) ==
    /\ pc[t] = "tl_clock"
    /\ \E got \in {TIME_UTC, 0}, reading \in Instants :
         IF got = 0
         THEN TimedReturn(t, thrd_error, 186, got)
         ELSE /\ pc' = [pc EXCEPT ![t] = "tl_check"]
              /\ res' = [res EXCEPT ![t] = got]
              /\ now' = [now EXCEPT ![t] = reading]
              /\ UNCHANGED <<last, held, sleep_time, latest_full_sleep_start>>
    /\ UNCHANGED <<mtype, mkind, owner, count, time_point>>
    /\ UNCHANGED <<attr, cndVars, thrdVars, slpVars>>

\* with the reading in now: the timeout check and the choice of sleep_time, up to
\* the call of sched_yield or nanosleep
tl_check(t) ==
    /\ pc[t] = "tl_check"
    /\ IF timespec_is_greater_than(now[t], time_point)
       THEN TimedReturn(t, thrd_timedout, 190, res[t])
       ELSE LET st == SleepTime(time_point, latest_full_sleep_start[t], now[t]) IN
            IF st.tv_nsec < 0
            THEN TimedReturn(t, thrd_error, 210, res[t])
            ELSE IF st.tv_sec < 0
            THEN TimedReturn(t, thrd_error, 214, res[t])
            ELSE /\ pc' = [pc EXCEPT ![t] =
                        IF ~(st.tv_sec # 0 \/ st.tv_nsec # 0) THEN "tl_yield" ELSE "tl_sleep"]
                 /\ sleep_time' = [sleep_time EXCEPT ![t] = st]
                 /\ UNCHANGED <<last, held, res, now, latest_full_sleep_start>>
    /\ UNCHANGED <<mtype, mkind, owner, count, time_point>>
    /\ UNCHANGED <<attr, cndVars, thrdVars, slpVars>>

\* sched_yield() returns and the loop starts over
tl_yield(t) ==
    /\ pc[t] = "tl_yield"
    /\ pc' = [pc EXCEPT ![t] = "tl_try"]
    /\ UNCHANGED <<mtype, mkind, owner, count, time_point, last, held,
                   res, now, sleep_time, latest_full_sleep_start>>
    /\ UNCHANGED <<attr, cndVars, thrdVars, slpVars>>

\* res = nanosleep(&sleep_time, &remaining) returns: 0 after the interval, -1 when
\* it failed or was interrupted (remaining is never read)
tl_sleep(t) ==
    /\ pc[t] = "tl_sleep"
    /\ \E r \in {0, -1} :
         IF r # 0
         THEN TimedReturn(t, thrd_error, 225, r)
         ELSE /\ pc' = [pc EXCEPT ![t] = "tl_try"]
              /\ res' = [res EXCEPT ![t] = r]
              /\ UNCHANGED <<last, held, now, sleep_time, latest_full_sleep_start>>
    /\ UNCHANGED <<mtype, mkind, owner, count, time_point>>
    /\ UNCHANGED <<attr, cndVars, thrdVars, slpVars>>

(* ------------------------------------------------------------------ *)
(* The mutex manager                                                    *)
(* ------------------------------------------------------------------ *)
MtxNext ==
    \/ \E t \in Threads : mtx_init(t)
    \/ \E t \in Threads : mtx_lock(t)
    \/ \E t \in Threads : mtx_lock_resume(t)
    \/ \E t \in Threads : mtx_trylock(t)
    \/ \E t \in Threads : mtx_unlock(t)
    \/ \E t \in Threads : mtx_timedlock(t)
    \/ \E t \in Threads : tl_try(t)
    \/ \E t \in Threads : tl_clock(t)
    \/ \E t \in Threads : tl_check(t)
    \/ \E t \in Threads : tl_yield(t)
    \/ \E t \in Threads : tl_sleep(t)

(* ------------------------------------------------------------------ *)
(* The thread launcher                                                  *)
(* ------------------------------------------------------------------ *)
Boxes == 1..MaxBoxes
Handles == 1..MaxHandles

\* the values entry points return
Values == {0, 7}

\* a thread that does not exist (yet)
NoThr == [st |-> "none", arg |-> NULL, ret |-> NULL, ours |-> FALSE]
\* the caller's result variable before anything was stored in it
Unwritten == [written |-> FALSE, val |-> 0]

\* what thrd_create or thrd_join on thr[h] returned, and whether thrd_join was
\* given a result pointer
TRet(op, h, r, line, hasRes) ==
    [op |-> op, h |-> h, res |-> r, line |-> line, hasRes |-> hasRes]

\* zmalloc(size): NULL for size 0 and when malloc fails, else the zeroed block
\* malloc returned
zmalloc(size, block) == IF size = 0 THEN NULL ELSE block

\* free(b) called by function by; the block's content is gone
free(b, by) ==
    /\ boxSt' = [boxSt EXCEPT ![b] = "freed"]
    /\ boxFrees' = [boxFrees EXCEPT ![b] = @ + 1]
    /\ boxFreedBy' = [boxFreedBy EXCEPT ![b] = by]
    /\ boxFunc' = [boxFunc EXCEPT ![b] = 0]
    /\ boxRes' = [boxRes EXCEPT ![b] = 0]

\* one access to a result box
Access(by, what, st) == [by |-> by, what |-> what, thread |-> st]

\* the accesses made to box b, followed by accs
Accessed(b, accs) == boxAcc' = [boxAcc EXCEPT ![b] = @ \o accs]

\* thrd_create that sets actual_func only when pthread_create has succeeded
CreateAccessesFuncAfterStart(err) ==
    <<Access("thrd_create", "write", "none")>> \o
    (IF err # 0
     THEN <<Access("thrd_create", "free", "none")>>
     ELSE <<Access("thrd_create", "write", "started")>>)

\* what thrd_create does with the box it allocated: it sets actual_func and
\* actual_arg, calls pthread_create, and frees the box when that returned err # 0
CreateAccesses(err) ==
    <<Access("thrd_create", "write", "none"), Access("thrd_create", "write", "none")>> \o
    (IF err # 0 THEN <<Access("thrd_create", "free", "none")>> ELSE <<>>)

\* what thrd_join does with the box the ended thread returned: it reads res when
\* it was given a result pointer, and frees the box
JoinAccesses(hasRes, st) ==
    (IF hasRes THEN <<Access("thrd_join", "read", st)>> ELSE <<>>) \o
    <<Access("thrd_join", "free", st)>>

\* thrd_create(&thr[h], func, arg), func returning v; block is what malloc returns
\* (NULL or the next box) and err what pthread_create returns
thrd_create(h, v, block, err) ==
    /\ LET wrapped == zmalloc(SizeofWrapped, block) IN
       IF wrapped = NULL
       THEN /\ tret' = TRet("thrd_create", h, thrd_error, 269, FALSE)
            /\ UNCHANGED <<boxSt, boxFunc, boxRes, boxFrees, boxFreedBy, nextBox,
                           thr, entry, out>>
       ELSE /\ nextBox' = nextBox + 1
            /\ tret' = TRet("thrd_create", h, ErrToResult(err), 281, FALSE)
            /\ IF err # 0
               THEN /\ free(wrapped, "thrd_create")
                    /\ UNCHANGED <<thr, entry, out>>
               ELSE /\ boxSt' = [boxSt EXCEPT ![wrapped] = "live"]
                    /\ boxFunc' = [boxFunc EXCEPT ![wrapped] = v]
                    /\ boxRes' = [boxRes EXCEPT ![wrapped] = 0]
                    /\ thr' = [thr EXCEPT ![h] =
                                  [st |-> "started", arg |-> wrapped, ret |-> NULL,
                                   ours |-> TRUE]]
                    /\ entry' = [entry EXCEPT ![h] = v]
                    /\ out' = [out EXCEPT ![h] = Unwritten]
                    /\ UNCHANGED <<boxFrees, boxFreedBy>>
    /\ LET wrapped == zmalloc(SizeofWrapped, block) IN
       IF wrapped = NULL THEN UNCHANGED boxAcc ELSE Accessed(wrapped, CreateAccesses(err))
    /\ UNCHANGED <<mtxVars, cndVars, slpVars>>

\* the launching code calls thrd_create on a thrd_t variable that holds no thread
\* still to be joined
call_thrd_create ==
    \E h \in Handles, v \in Values, ok \in BOOLEAN, err \in {0, EINVAL} :
        /\ thr[h].st \in {"none", "joined"}
        /\ ok => nextBox \in Boxes
        /\ thrd_create(h, v, IF ok THEN nextBox ELSE NULL, err)

\* wrap_thread_func that calls the entry point and drops its result
wrap_thread_func_drops_result(h) ==
    /\ thr[h].st = "started"
    /\ thr' = [thr EXCEPT ![h].st = "ran"]
    /\ UNCHANGED <<boxSt, boxFunc, boxRes, boxFrees, boxFreedBy, nextBox, entry, out,
                   tret>>
    /\ Accessed(thr[h].arg, <<Access("wrap_thread_func", "read", thr[h].st)>>)
    /\ UNCHANGED <<mtxVars, cndVars, slpVars>>

\* wrap_thread_func, first half: wrapped->res = wrapped->actual_func(wrapped->actual_arg)
wrap_thread_func(h) ==
    /\ thr[h].st = "started"
    /\ boxRes' = [boxRes EXCEPT ![thr[h].arg] = boxFunc[thr[h].arg]]
    /\ thr' = [thr EXCEPT ![h].st = "ran"]
    /\ UNCHANGED <<boxSt, boxFunc, boxFrees, boxFreedBy, nextBox, entry, out, tret>>
    /\ Accessed(thr[h].arg, <<Access("wrap_thread_func", "read", thr[h].st),
                              Access("wrap_thread_func", "write", thr[h].st)>>)
    /\ UNCHANGED <<mtxVars, cndVars, slpVars>>

\* wrap_thread_func, second half: return arg, which ends the thread
thread_exit(h) ==
    /\ thr[h].st = "ran"
    /\ thr' = [thr EXCEPT ![h].st = "exited", ![h].ret = thr[h].arg]
    /\ UNCHANGED <<boxSt, boxFunc, boxRes, boxFrees, boxFreedBy, nextBox, entry, out,
                   tret>>
    /\ UNCHANGED boxAcc
    /\ UNCHANGED <<mtxVars, cndVars, slpVars>>

\* a thread that was not started by thrd_create ends with the value NULL
foreign_thread(h) ==
    /\ thr[h].st \in {"none", "joined"}
    /\ thr' = [thr EXCEPT ![h] = [st |-> "exited", arg |-> NULL, ret |-> NULL,
                                  ours |-> FALSE]]
    /\ out' = [out EXCEPT ![h] = Unwritten]
    /\ UNCHANGED <<boxSt, boxFunc, boxRes, boxFrees, boxFreedBy, nextBox, entry, tret>>
    /\ UNCHANGED boxAcc
    /\ UNCHANGED <<mtxVars, cndVars, slpVars>>

\* thrd_join that frees the record only when it was given a result pointer
thrd_join_frees_with_res(h, hasRes, err) ==
    /\ IF err # 0
       THEN /\ tret' = TRet("thrd_join", h, thrd_error, 293, hasRes)
            /\ UNCHANGED <<boxSt, boxFunc, boxRes, boxFrees, boxFreedBy, thr, out>>
       ELSE LET wrapped == thr[h].ret IN
            /\ thr' = [thr EXCEPT ![h].st = "joined"]
            /\ tret' = TRet("thrd_join", h, thrd_success, 310, hasRes)
            /\ IF wrapped # NULL /\ hasRes
               THEN /\ out' = [out EXCEPT ![h] = [written |-> TRUE, val |-> boxRes[wrapped]]]
                    /\ free(wrapped, "thrd_join")
               ELSE /\ out' = [out EXCEPT ![h] =
                                  IF hasRes THEN [written |-> TRUE, val |-> 0] ELSE @]
                    /\ UNCHANGED <<boxSt, boxFunc, boxRes, boxFrees, boxFreedBy>>
    /\ UNCHANGED <<nextBox, entry>>
    /\ IF err = 0 /\ thr[h].ret # NULL /\ hasRes
       THEN Accessed(thr[h].ret, JoinAccesses(hasRes, thr[h].st))
       ELSE UNCHANGED boxAcc
    /\ UNCHANGED <<mtxVars, cndVars, slpVars>>

\* thrd_join that stores 0 through the result pointer before it looks at what
\* pthread_join returned
thrd_join_stores_first(h, hasRes, err) ==
    /\ IF err # 0
       THEN /\ tret' = TRet("thrd_join", h, thrd_error, 293, hasRes)
            /\ out' = [out EXCEPT ![h] =
                          IF hasRes THEN [written |-> TRUE, val |-> 0] ELSE @]
            /\ UNCHANGED <<boxSt, boxFunc, boxRes, boxFrees, boxFreedBy, thr>>
       ELSE LET wrapped == thr[h].ret IN
            /\ thr' = [thr EXCEPT ![h].st = "joined"]
            /\ tret' = TRet("thrd_join", h, thrd_success, 310, hasRes)
            /\ IF ~(wrapped # NULL)
               THEN /\ out' = [out EXCEPT ![h] =
                                  IF hasRes THEN [written |-> TRUE, val |-> 0] ELSE @]
                    /\ UNCHANGED <<boxSt, boxFunc, boxRes, boxFrees, boxFreedBy>>
               ELSE /\ out' = [out EXCEPT ![h] =
                                  IF hasRes
                                  THEN [written |-> TRUE, val |-> boxRes[wrapped]]
                                  ELSE @]
                    /\ free(wrapped, "thrd_join")
    /\ UNCHANGED <<nextBox, entry>>
    /\ IF err = 0 /\ thr[h].ret # NULL
       THEN Accessed(thr[h].ret, JoinAccesses(hasRes, thr[h].st))
       ELSE UNCHANGED boxAcc
    /\ UNCHANGED <<mtxVars, cndVars, slpVars>>

\* thrd_join(thr[h], res) where pthread_join returns err and, for err = 0, the
\* value the thread ended with; hasRes: res is not a null pointer
thrd_join(h, hasRes, err) ==
    /\ IF err # 0
       THEN /\ tret' = TRet("thrd_join", h, thrd_error, 293, hasRes)
            /\ UNCHANGED <<boxSt, boxFunc, boxRes, boxFrees, boxFreedBy, thr, out>>
       ELSE LET wrapped == thr[h].ret IN
            /\ thr' = [thr EXCEPT ![h].st = "joined"]
            /\ tret' = TRet("thrd_join", h, thrd_success, 310, hasRes)
            /\ IF ~(wrapped # NULL)
               THEN /\ out' = [out EXCEPT ![h] =
                                  IF hasRes THEN [written |-> TRUE, val |-> 0] ELSE @]
                    /\ UNCHANGED <<boxSt, boxFunc, boxRes, boxFrees, boxFreedBy>>
               ELSE /\ out' = [out EXCEPT ![h] =
                                  IF hasRes
                                  THEN [written |-> TRUE, val |-> boxRes[wrapped]]
                                  ELSE @]
                    /\ free(wrapped, "thrd_join")
    /\ UNCHANGED <<nextBox, entry>>
    /\ IF err = 0 /\ thr[h].ret # NULL
       THEN Accessed(thr[h].ret, JoinAccesses(hasRes, thr[h].st))
       ELSE UNCHANGED boxAcc
    /\ UNCHANGED <<mtxVars, cndVars, slpVars>>

\* the launching code joins a thread it has not joined yet; pthread_join returns 0
\* only once the thread has ended
call_thrd_join ==
    \E h \in Handles, hasRes \in BOOLEAN, err \in {0, EINVAL} :
        /\ thr[h].st \in {"started", "ran", "exited"}
        /\ err = 0 => thr[h].st = "exited"
        /\ thrd_join(h, hasRes, err)

ThrdNext ==
    \/ call_thrd_create
    \/ \E h \in Handles : wrap_thread_func(h)
    \/ \E h \in Handles : thread_exit(h)
    \/ \E h \in Handles : foreign_thread(h)
    \/ call_thrd_join

(* ------------------------------------------------------------------ *)
(* thrd_sleep                                                           *)
(* ------------------------------------------------------------------ *)
\* errno of an interrupted nanosleep
EINTR == 4

\* the durations callers pass to thrd_sleep; the last is not a valid time value
Durations ==
    {Timespec(0, 1000), Timespec(1, 0), Timespec(0, THREADS_COMPAT_NANOS_PER_SECOND)}

\* the time left when a signal interrupts nanosleep(d): more than nothing, at
\* most d
Remainders(d) ==
    {r \in {Timespec(0, 400), Timespec(0, 1000), Timespec(0, 999999000)} :
        ~TimeBefore(d, r)}

\* the remaining argument: pointer given or null, nothing stored yet
Remaining(given) == [given |-> given, written |-> FALSE, val |-> ZeroTime]
NoRemaining == Remaining(FALSE)

\* nanosleep rejects a duration with nanoseconds outside [0, 10^9) or negative
\* seconds
InvalidDuration(d) ==
    d.tv_sec < 0 \/ d.tv_nsec < 0 \/ d.tv_nsec >= THREADS_COMPAT_NANOS_PER_SECOND

\* what nanosleep returns and leaves in errno: 0 after the full duration, -1 with
\* EINTR when a signal handler ran, -1 with EINVAL for an invalid duration
nanosleep(outcome) ==
    CASE outcome = "complete"    -> [ret |-> 0, errno |-> 0]
      [] outcome = "interrupted" -> [ret |-> -1, errno |-> EINTR]
      [] outcome = "invalid"     -> [ret |-> -1, errno |-> EINVAL]

\* return nanosleep(duration, remaining)
thrd_sleep_ret(outcome) ==
    Ret("thrd_sleep", nanosleep(outcome).ret, 285, nanosleep(outcome).errno)

\* thrd_sleep(duration, remaining): nanosleep fails at once for an invalid
\* duration, else the thread is suspended
thrd_sleep(t) ==
    /\ pc[t] = "idle"
    /\ \E d \in Durations, given \in BOOLEAN :
         /\ duration' = [duration EXCEPT ![t] = d]
         /\ remaining' = [remaining EXCEPT ![t] = Remaining(given)]
         /\ IF InvalidDuration(d)
            THEN /\ last' = [last EXCEPT ![t] = thrd_sleep_ret("invalid")]
                 /\ pc' = pc
            ELSE /\ pc' = [pc EXCEPT ![t] = "nanosleep"]
                 /\ last' = last
    /\ UNCHANGED <<mtype, mkind, owner, count, time_point, held, res, now, sleep_time,
                   latest_full_sleep_start, attr>>
    /\ UNCHANGED <<cndVars, thrdVars>>

\* the duration has elapsed
sleep_complete(t) ==
    /\ pc[t] = "nanosleep"
    /\ pc' = [pc EXCEPT ![t] = "idle"]
    /\ last' = [last EXCEPT ![t] = thrd_sleep_ret("complete")]
    /\ UNCHANGED <<mtype, mkind, owner, count, time_point, held, res, now, sleep_time,
                   latest_full_sleep_start, attr>>
    /\ UNCHANGED <<duration, remaining, cndVars, thrdVars>>

\* a signal handler ran before the duration elapsed: nanosleep stores the time
\* left through remaining unless it is null
sleep_interrupted(t) ==
    /\ pc[t] = "nanosleep"
    /\ pc' = [pc EXCEPT ![t] = "idle"]
    /\ last' = [last EXCEPT ![t] = thrd_sleep_ret("interrupted")]
    /\ \E r \in Remainders(duration[t]) :
         remaining' = [remaining EXCEPT ![t] =
                          IF @.given THEN [@ EXCEPT !.written = TRUE, !.val = r] ELSE @]
    /\ UNCHANGED <<mtype, mkind, owner, count, time_point, held, res, now, sleep_time,
                   latest_full_sleep_start, attr>>
    /\ UNCHANGED <<duration, cndVars, thrdVars>>

SlpNext ==
    \/ \E t \in Threads : thrd_sleep(t)
    \/ \E t \in Threads : sleep_complete(t)
    \/ \E t \in Threads : sleep_interrupted(t)

(* ------------------------------------------------------------------ *)
(* Condition variable                                                   *)
(* ------------------------------------------------------------------ *)
\* pthread_cond_timedwait's value when the deadline has elapsed
ETIMEDOUT == 60

\* the threads blocked on the condition variable that nothing has woken yet
Waiters == {t \in Threads : pc[t] \in {"cnd_wait", "cnd_timedwait"} /\ wake[t] = "none"}

\* cnd_wait: thrd_error for any error of pthread_cond_wait, else thrd_success
cnd_wait_ret(err) ==
    IF err # 0 THEN Ret("cnd_wait", thrd_error, 338, err)
    ELSE Ret("cnd_wait", thrd_success, 341, err)

\* cnd_timedwait_ret without the case of ETIMEDOUT
cnd_timedwait_ret_no_timeout(err) ==
    IF err # 0 THEN Ret("cnd_timedwait", thrd_error, 363, err)
    ELSE Ret("cnd_timedwait", thrd_success, 366, err)

\* cnd_timedwait: thrd_timedout for ETIMEDOUT, thrd_error for any other error
cnd_timedwait_ret(err) ==
    IF err # 0
    THEN IF err = ETIMEDOUT
         THEN Ret("cnd_timedwait", thrd_timedout, 359, err)
         ELSE Ret("cnd_timedwait", thrd_error, 363, err)
    ELSE Ret("cnd_timedwait", thrd_success, 366, err)

\* cnd_broadcast: thrd_error for any error of pthread_cond_broadcast
cnd_broadcast_ret(err) ==
    IF err # 0 THEN Ret("cnd_broadcast", thrd_error, 348, err)
    ELSE Ret("cnd_broadcast", thrd_success, 351, err)

\* pthread_cond_wait / pthread_cond_timedwait called by the holder of the mutex
\* (locked once): an error is returned with the mutex as it is, else the mutex
\* is released and the thread blocks on the condition variable, atomically
cond_block(t, op, ret) ==
    /\ mtype # "none"
    /\ owner = t /\ count = 1
    /\ \E err \in {0, EINVAL} :
         IF err # 0
         THEN /\ Return(t, ret, 0)
              /\ UNCHANGED <<owner, count, wake>>
         ELSE /\ pc' = [pc EXCEPT ![t] = op]
              /\ last' = [last EXCEPT ![t] = NoRet]
              /\ held' = [held EXCEPT ![t] = 0]
              /\ owner' = NoThread
              /\ count' = 0
              /\ wake' = [wake EXCEPT ![t] = "none"]
    /\ UNCHANGED <<mtype, mkind, time_point, res, now, sleep_time,
                   latest_full_sleep_start, attr>>
    /\ UNCHANGED <<due, bcast, thrdVars, slpVars>>

\* the woken thread gets the mutex back and the call returns what the primitive
\* returned
cond_resume(t, op, ret) ==
    /\ wake[t] # "none"
    /\ owner = NoThread
    /\ owner' = t
    /\ count' = 1
    /\ held' = [held EXCEPT ![t] = 1]
    /\ pc' = [pc EXCEPT ![t] = "idle"]
    /\ last' = [last EXCEPT ![t] = ret]
    /\ wake' = [wake EXCEPT ![t] = "none"]
    /\ due' = due \ {t}
    /\ UNCHANGED <<mtype, mkind, time_point, res, now, sleep_time,
                   latest_full_sleep_start, attr>>
    /\ UNCHANGED <<bcast, thrdVars, slpVars>>

cnd_wait(t) ==
    /\ pc[t] = "idle"
    /\ cond_block(t, "cnd_wait", cnd_wait_ret(EINVAL))

cnd_wait_resume(t) ==
    /\ pc[t] = "cnd_wait"
    /\ cond_resume(t, "cnd_wait", cnd_wait_ret(0))

cnd_timedwait(t) ==
    /\ pc[t] = "idle"
    /\ cond_block(t, "cnd_timedwait", cnd_timedwait_ret(EINVAL))

cnd_timedwait_resume(t) ==
    /\ pc[t] = "cnd_timedwait"
    /\ cond_resume(t, "cnd_timedwait",
                   cnd_timedwait_ret(IF wake[t] = "timeout" THEN ETIMEDOUT ELSE 0))

\* the deadline of a blocked pthread_cond_timedwait elapses
cond_deadline(t) ==
    /\ pc[t] = "cnd_timedwait"
    /\ wake[t] = "none"
    /\ wake' = [wake EXCEPT ![t] = "timeout"]
    /\ UNCHANGED <<mtxVars, due, bcast, thrdVars, slpVars>>

\* a spurious wakeup, which the primitive permits
spurious_wakeup(t) ==
    /\ t \in Waiters
    /\ wake' = [wake EXCEPT ![t] = "spurious"]
    /\ UNCHANGED <<mtxVars, due, bcast, thrdVars, slpVars>>

\* pthread_cond_broadcast that unblocks one waiting thread only
pthread_cond_signal(w) ==
    IF Waiters = {} THEN w
    ELSE [w EXCEPT ![CHOOSE t \in Waiters : \A u \in Waiters : t <= u] = "signal"]

\* pthread_cond_broadcast unblocks every thread blocked on the condition variable
pthread_cond_broadcast(w) ==
    [t \in Threads |-> IF t \in Waiters THEN "signal" ELSE w[t]]

\* cnd_broadcast called by the signalling context
cnd_broadcast ==
    /\ mtype # "none"
    /\ \E err \in {0, EINVAL} :
         /\ bcast' = cnd_broadcast_ret(err)
         /\ IF err # 0
            THEN UNCHANGED <<wake, due>>
            ELSE /\ wake' = pthread_cond_broadcast(wake)
                 /\ due' = due \cup {t \in Threads : pc[t] = "cnd_wait"}
    /\ UNCHANGED <<mtxVars, thrdVars, slpVars>>

CndNext ==
    \/ \E t \in Threads : mtx_init(t)
    \/ \E t \in Threads : mtx_lock(t)
    \/ \E t \in Threads : mtx_lock_resume(t)
    \/ \E t \in Threads : mtx_unlock(t)
    \/ \E t \in Threads : cnd_wait(t)
    \/ \E t \in Threads : cnd_wait_resume(t)
    \/ \E t \in Threads : cnd_timedwait(t)
    \/ \E t \in Threads : cnd_timedwait_resume(t)
    \/ \E t \in Threads : cond_deadline(t)
    \/ \E t \in Threads : spurious_wakeup(t)
    \/ cnd_broadcast

(* ------------------------------------------------------------------ *)
(* Specifications                                                       *)
(* ------------------------------------------------------------------ *)
vars == <<mtxVars, thrdVars, slpVars, cndVars>>

\* nothing constructed yet: no mutex initialised, no thread started, the heap
\* untouched; deadlines are the deadlines the run passes to mtx_timedlock
InitWith(deadlines) ==
    /\ mtype = "none"
    /\ mkind = 0
    /\ owner = NoThread
    /\ count = 0
    /\ time_point \in deadlines
    /\ pc = [t \in Threads |-> "idle"]
    /\ last = [t \in Threads |-> NoRet]
    /\ held = [t \in Threads |-> 0]
    /\ res = [t \in Threads |-> 0]
    /\ now = [t \in Threads |-> ZeroTime]
    /\ sleep_time = [t \in Threads |-> ZeroTime]
    /\ latest_full_sleep_start = [t \in Threads |-> ZeroTime]
    /\ boxSt = [b \in Boxes |-> "unused"]
    /\ boxFunc = [b \in Boxes |-> 0]
    /\ boxRes = [b \in Boxes |-> 0]
    /\ boxFrees = [b \in Boxes |-> 0]
    /\ boxFreedBy = [b \in Boxes |-> "nobody"]
    /\ boxAcc = [b \in Boxes |-> <<>>]
    /\ nextBox = 1
    /\ thr = [h \in Handles |-> NoThr]
    /\ entry = [h \in Handles |-> 0]
    /\ out = [h \in Handles |-> Unwritten]
    /\ tret = TRet("none", 0, 0, 0, FALSE)
    /\ attr = Resources(0, 0, 0)
    /\ duration = [t \in Threads |-> ZeroTime]
    /\ remaining = [t \in Threads |-> NoRemaining]
    /\ wake = [t \in Threads |-> "none"]
    /\ due = {}
    /\ bcast = NoRet

MtxInit == InitWith(Deadlines)
ThrdInit == InitWith({ZeroTime})

\* the mutex manager used by NThreads threads
SpecMtx == MtxInit /\ [][MtxNext]_vars
\* the thread launcher used by one launching context
SpecThrd == ThrdInit /\ [][ThrdNext]_vars
\* thrd_sleep called by NThreads threads
SpecSlp == ThrdInit /\ [][SlpNext]_vars

CndInit == InitWith({ZeroTime})


\* a condition variable and its mutex used by NThreads threads and a signalling
\* context
SpecCnd == CndInit /\ [][CndNext]_vars
\* the same with fair scheduling and holders that give the mutex up: a woken
\* thread for which the mutex is free again and again gets it, and no thread
\* holds the mutex for ever
SpecCndFair ==
    /\ SpecCnd
    /\ \A t \in Threads : SF_vars(cnd_wait_resume(t))
    /\ \A t \in Threads : []<>(owner # t)

\* this step is a reading of the clock by t that is not later than the deadline
EarlyReading(t) ==
    /\ pc[t] = "tl_clock"
    /\ pc'[t] = "tl_check"
    /\ ~TimeBefore(time_point, now'[t])

\* the steps of threads that take the mutex with mtx_timedlock only
TlNext ==
    \/ \E t \in Threads : mtx_init(t)
    \/ \E t \in Threads : mtx_unlock(t)
    \/ \E t \in Threads : mtx_timedlock(t)
    \/ \E t \in Threads : tl_try(t)
    \/ \E t \in Threads : tl_clock(t)
    \/ \E t \in Threads : tl_check(t)
    \/ \E t \in Threads : tl_yield(t)
    \/ \E t \in Threads : tl_sleep(t)

\* these threads without any assumption of progress
SpecTl == MtxInit /\ [][TlNext]_vars

\* the same with fair scheduling of the threads inside mtx_timedlock and a
\* clock that gets past the deadline: a thread in the loop takes its next step,
\* and from some time on every reading of the clock is later than the deadline.
\* Nothing makes a holder release the mutex.
SpecMtxFair ==
    /\ SpecTl
    /\ \A t \in Threads :
          WF_vars(tl_try(t) \/ tl_clock(t) \/ tl_check(t) \/ tl_yield(t) \/ tl_sleep(t))
    /\ <>[][\A t \in Threads : ~EarlyReading(t)]_vars

(* ------------------------------------------------------------------ *)
(* Properties of the mutex manager                                      *)
(* ------------------------------------------------------------------ *)
\* t is inside mtx_timedlock
Polling(t) == pc[t] \in {"tl_try", "tl_clock", "tl_check", "tl_yield", "tl_sleep"}

\* this step is a step of mtx_timedlock by t: its entry or a step of its loop
TimedStep(t) ==
    \/ Polling(t) /\ (pc'[t] # pc[t] \/ last'[t] # last[t])
    \/ pc[t] = "idle" /\ pc'[t] = "tl_try"
    \/ pc[t] = "idle" /\ pc'[t] = "idle" /\ last'[t] # last[t]
       /\ last'[t].op = "mtx_timedlock"

\* this step is the return of mtx_timedlock to t
TimedReturns(t) == TimedStep(t) /\ pc'[t] = "idle"

\* the mutex is left as it was and t's acquisitions are what they were
MutexUntouched(t) == UNCHANGED <<owner, count>> /\ held'[t] = held[t]

\* C1: every return of mtx_timedlock is success, timed-out or the generic error.
\* It is success exactly when the step is an acquisition attempt that gave the
\* caller the mutex, and the caller then holds it. It is timed-out only from the
\* timeout check that follows a busy attempt, with a clock reading later than the
\* deadline. An attempt that fails with anything but busy, a failed clock read and
\* a failed sleep return the generic error. After timed-out and after the generic
\* error the call has not acquired the mutex: the mutex is as it was, and a caller
\* that did not hold it before does not hold it.
C1_TimedlockOutcomes ==
    [][\A t \in Threads :
          /\ TimedReturns(t) =>
               LET ret == last'[t] IN
               /\ ret.res \in {thrd_success, thrd_timedout, thrd_error}
               /\ ret.res = thrd_success
                    <=> (pc[t] = "tl_try" /\ ret.err = 0 /\ owner' = t /\ count' = count + 1)
               /\ ret.res = thrd_success => held'[t] = held[t] + 1 /\ held'[t] = count'
               /\ ret.res = thrd_timedout =>
                    /\ pc[t] = "tl_check"
                    /\ TimeBefore(time_point, now[t])
                    /\ MutexUntouched(t)
                    /\ owner' # t
               /\ ret.res = thrd_error =>
                    /\ MutexUntouched(t)
                    /\ held[t] = 0 => owner' # t
               /\ (pc[t] = "tl_try" /\ ret.err \notin {0, EBUSY}) => ret.res = thrd_error
               /\ (pc[t] = "tl_clock" /\ ret.err = 0) => ret.res = thrd_error
               /\ (pc[t] = "tl_sleep" /\ ret.err # 0) => ret.res = thrd_error
          \* the call goes on only after a busy attempt, a clock read that worked,
          \* a sleep that was not cut short
          /\ pc'[t] = "tl_clock" => res'[t] = EBUSY
          /\ pc'[t] = "tl_check" => res'[t] # 0
          /\ (pc[t] = "tl_sleep" /\ pc'[t] = "tl_try") => res'[t] = 0
    ]_vars

\* C1 witness: one call has timed out while another thread, whose call returned
\* success, holds the mutex
C1_Witness ==
    \E t, u \in Threads :
        /\ last[t] = TimedRet(thrd_timedout, 190, TIME_UTC)
        /\ last[u] = TimedRet(thrd_success, 175, 0)
        /\ owner = u /\ held[u] = 1 /\ held[t] = 0

\* another thread holds the mutex
HeldByOther(t) == owner \notin {NoThread, t}

\* the deadline lies before every reading the clock gives
DeadlinePast == \A i \in Instants : TimeBefore(time_point, i)

\* the returns of mtx_timedlock that an underlying primitive's failure causes
FaultLines == {180, 186, 225}

\* C2: with the deadline before the current clock value and the mutex held by
\* another thread, a call of mtx_timedlock goes from its entry to the first
\* attempt, from a busy attempt to the clock read and from a reading later than
\* the deadline to the return of timed-out, whatever the deadline's seconds are;
\* it never gets to sleep or yield and returns nothing else (short of a failure
\* of an underlying primitive).
C2_PastDeadlineTimesOut ==
    [][\A t \in Threads :
          (TimedStep(t) /\ HeldByOther(t)) =>
              /\ (pc[t] = "idle" /\ DeadlinePast) => pc'[t] = "tl_try"
              /\ pc[t] = "tl_try" =>
                    (pc'[t] = "tl_clock" \/ last'[t].line \in FaultLines)
              /\ pc[t] = "tl_clock" =>
                    (pc'[t] = "tl_check" \/ last'[t].line \in FaultLines)
              /\ (pc[t] = "tl_check" /\ TimeBefore(time_point, now[t])) =>
                    (pc'[t] = "idle" /\ last'[t].res = thrd_timedout)
    ]_vars

\* the sleep interval st is at most the check interval
WithinCheckInterval(st) == ~TimeBefore(CheckInterval, st)

\* C3: once the holder has released the mutex and nobody else has taken it, a
\* thread polling in mtx_timedlock whose clock reading was not past the deadline
\* acquires the mutex with its next attempt and returns success, and the one sleep
\* that may lie between the release and that attempt is at most one check interval.
C3_AcquiresWithinOneInterval ==
    [][\A t \in Threads :
          (Polling(t) /\ owner = NoThread) =>
              /\ (pc[t] = "tl_try" /\ TimedStep(t)) =>
                    \/ last'[t].res = thrd_success /\ owner' = t
                    \/ last'[t].line \in FaultLines
              /\ pc[t] = "tl_sleep" => WithinCheckInterval(sleep_time[t])
              /\ (pc[t] \in {"tl_sleep", "tl_yield"} /\ TimedStep(t)) =>
                    (pc'[t] = "tl_try" \/ last'[t].line \in FaultLines)
    ]_vars

\* the threads that hold the mutex: they were returned success by more
\* acquisitions than they have released
Holders == {t \in Threads : held[t] > 0}

\* C4: at most one thread holds the mutex; several acquisitions are outstanding
\* only on the recursive mutex and then they are all its owner's.
C4_MutualExclusion ==
    /\ Cardinality(Holders) <= 1
    /\ \A t \in Holders : owner = t /\ count = held[t]
    /\ \A t \in Threads : held[t] > 1 => mkind = mtx_plain + mtx_recursive
    /\ \A t \in Threads : held[t] >= 0

\* C4 witness: a thread holds the recursive mutex twice while another thread is
\* blocked in mtx_lock and has been refused
C4_Witness ==
    \E t, u \in Threads :
        /\ t # u /\ held[t] = 2 /\ held[u] = 0
        /\ pc[u] = "lock"

\* C5: on a mutex created as recursive the holder's nested mtx_lock calls are not
\* blocked and return success; each successful unlock takes back exactly one
\* acquisition, and the mutex is free for another thread exactly when the holder
\* has released as often as it acquired; for both kinds a mtx_unlock by a holder
\* succeeds, and after the last one the mutex is free.
C5_RecursiveNesting ==
    /\ \A t \in Threads :
          (mkind = mtx_plain + mtx_recursive /\ owner = t) => pc[t] # "lock"
    /\ \A t \in Threads :
          (pc[t] = "idle" /\ last[t].op = "mtx_lock") => last[t].res = thrd_success
    /\ \A t \in Threads : owner = t => (held[t] = count /\ count > 0)
    /\ \A t \in Threads : (owner # t) => held[t] = 0
    /\ owner = NoThread <=> count = 0
    /\ \A t \in Threads :
          (pc[t] = "idle" /\ last[t].op = "mtx_unlock" /\ last[t].res = thrd_error)
              => (owner # t /\ last[t].err = EPERM)
    /\ \A t \in Threads :
          (last[t] = mtx_unlock_ret(0) /\ held[t] = 0) => owner # t

\* C5 witness: the holder of the recursive mutex has locked it twice and released
\* it once, and still owns it
C5_Witness ==
    \E t \in Threads :
        /\ mkind = mtx_plain + mtx_recursive
        /\ last[t] = mtx_unlock_ret(0)
        /\ owner = t /\ held[t] = 1

\* this step is a call of mtx_trylock by t
TrylockStep(t) ==
    /\ pc[t] = "idle" /\ pc'[t] = "idle"
    /\ last'[t].op = "mtx_trylock"
    /\ last'[t] # last[t] \/ held'[t] # held[t]

\* C6: mtx_trylock returns in one step. On a plain mutex held by another thread
\* it returns Busy, which is neither success nor the generic error, and leaves
\* the mutex and its holder as they were; on a free mutex it returns success and
\* the caller is the holder; for any other value of the primitive it returns the
\* generic error and changes nothing.
C6_TrylockNeverBlocks ==
    [][\A t \in Threads :
          TrylockStep(t) =>
              LET ret == last'[t] IN
              /\ ret.err \in {pthread_mutex_trylock(t), EINVAL}
              /\ (mkind = mtx_plain /\ HeldByOther(t) /\ ret.err = EBUSY) =>
                    (ret.res = thrd_busy /\ MutexUntouched(t))
              /\ ret.res = thrd_busy => (ret.err = EBUSY /\ MutexUntouched(t))
              /\ (owner = NoThread /\ ret.err = 0) =>
                    /\ ret.res = thrd_success
                    /\ owner' = t /\ count' = 1 /\ held'[t] = 1
              /\ ret.err \notin {0, EBUSY} =>
                    (ret.res = thrd_error /\ MutexUntouched(t))
              /\ thrd_busy \notin {thrd_success, thrd_error}
    ]_vars

\* C6 witness: mtx_trylock on the plain mutex has returned Busy to one thread
\* while another holds the mutex, which it got from mtx_trylock
C6_Witness ==
    \E t, u \in Threads :
        /\ mkind = mtx_plain
        /\ last[t] = mtx_trylock_ret(EBUSY) /\ last[t].res = thrd_busy
        /\ last[u] = mtx_trylock_ret(0) /\ owner = u /\ held[u] = 1

\* the threads started by thrd_create and not joined yet
Unjoined == {h \in Handles : thr[h].ours /\ thr[h].st \in {"started", "ran", "exited"}}

\* C7: a successful thrd_join with a result pointer on a thread that thrd_create
\* started stores exactly the value the thread's entry point returns, for every
\* handle and on every reuse of a handle; a result stored for one thread is never
\* another thread's.
C7_ResultRoundTrip ==
    /\ \A h \in Handles :
          (thr[h].ours /\ thr[h].st = "joined" /\ out[h].written) =>
              out[h].val = entry[h]
    /\ (tret.op = "thrd_join" /\ tret.line = 310 /\ thr[tret.h].ours /\ tret.hasRes) =>
          /\ tret.res = thrd_success
          /\ thr[tret.h].st = "joined" =>
                (out[tret.h].written /\ out[tret.h].val = entry[tret.h])
    /\ \A h \in Unjoined : ~out[h].written

\* C7 witness: two threads with different entry point results have both been
\* joined with a result pointer, each through a record of its own
C7_Witness ==
    \E h, g \in Handles :
        /\ h # g /\ nextBox > 2
        /\ thr[h].ours /\ thr[h].st = "joined" /\ out[h] = [written |-> TRUE, val |-> 7]
        /\ thr[g].ours /\ thr[g].st = "joined" /\ out[g] = [written |-> TRUE, val |-> 0]
        /\ entry[h] = 7 /\ entry[g] = 0

\* C8: no record is freed twice; a record is freed by thrd_create only when no
\* thread was started on it, and otherwise by the successful thrd_join of its
\* thread, with or without a result pointer; an allocated record belongs to
\* exactly one thread not joined yet, so once every started thread is joined no
\* record remains allocated.
C8_BoxFreedExactlyOnce ==
    /\ \A b \in Boxes :
          /\ boxFrees[b] <= 1
          /\ boxSt[b] = "freed" <=> boxFrees[b] = 1
          /\ boxSt[b] = "freed" => boxFreedBy[b] \in {"thrd_create", "thrd_join"}
          /\ boxFreedBy[b] = "thrd_create" => \A h \in Handles : thr[h].arg # b
          /\ boxSt[b] = "live" => Cardinality({h \in Unjoined : thr[h].arg = b}) = 1
          /\ boxSt[b] = "unused" <=> b >= nextBox
    /\ \A h \in Unjoined : boxSt[thr[h].arg] = "live"
    /\ \A h \in Handles :
          (thr[h].ours /\ thr[h].st = "joined") =>
              (boxSt[thr[h].arg] = "freed" /\ boxFreedBy[thr[h].arg] = "thrd_join")
    /\ Unjoined = {} => \A b \in Boxes : boxSt[b] # "live"

\* C8 witness: one record was freed by thrd_create after a failed thread creation
\* and another by a thrd_join without a result pointer, and nothing is allocated
C8_Witness ==
    /\ \E b, c \in Boxes :
          /\ boxFreedBy[b] = "thrd_create" /\ boxFrees[b] = 1
          /\ boxFreedBy[c] = "thrd_join" /\ boxFrees[c] = 1
    /\ tret.op = "thrd_join" /\ tret.res = thrd_success /\ ~tret.hasRes
    /\ thr[tret.h].ours
    /\ Unjoined = {}

\* C9: thrd_create returns thrd_nomem when the allocation of the record failed,
\* and the generic error, with the record freed, when the thread creation
\* failed; neither starts a thread.
C9_CreateFailureCauses ==
    /\ (tret.op = "thrd_create" /\ tret.line = 269) => tret.res = thrd_nomem
    /\ (tret.op = "thrd_create" /\ tret.line = 281 /\ tret.res # thrd_success) =>
          /\ tret.res = thrd_error
          /\ boxSt[nextBox - 1] = "freed" /\ boxFreedBy[nextBox - 1] = "thrd_create"
          /\ \A h \in Handles : thr[h].arg # nextBox - 1
    /\ (tret.op = "thrd_create" /\ tret.res # thrd_success) =>
          \A h \in Unjoined : boxSt[thr[h].arg] = "live"

\* this step is a call of thrd_join on thr[h]
JoinStep(h) ==
    /\ tret'.op = "thrd_join" /\ tret'.h = h
    /\ tret' # tret \/ (thr'[h].st = "joined" /\ thr[h].st # "joined")

\* C10: when pthread_join fails, thrd_join returns the generic error, leaves the
\* caller's result variable alone and frees nothing; when pthread_join yields a
\* null record, thrd_join returns success, stores 0 if it has a result pointer
\* and frees nothing; the thread of a successful thrd_create never yields a null
\* record.
C10_JoinErrorPaths ==
    [][\A h \in Handles :
          JoinStep(h) =>
              /\ tret'.line = 293 =>
                    /\ tret'.res = thrd_error
                    /\ UNCHANGED <<out, thr, boxSt, boxFunc, boxRes, boxFrees, boxFreedBy>>
              /\ tret'.line # 293 =>
                    /\ tret'.line = 310 /\ tret'.res = thrd_success
                    /\ thr[h].st = "exited" /\ thr'[h].st = "joined"
              /\ (tret'.line = 310 /\ thr[h].ret = NULL) =>
                    /\ UNCHANGED <<boxSt, boxFunc, boxRes, boxFrees, boxFreedBy>>
                    /\ out'[h] = IF tret'.hasRes THEN [written |-> TRUE, val |-> 0]
                                 ELSE out[h]
                    /\ ~thr[h].ours
              /\ (tret'.line = 310 /\ thr[h].ours) =>
                    (thr[h].ret # NULL /\ boxSt[thr[h].ret] = "live")
    ]_vars

\* C10 witness: a thrd_join with a result pointer failed on a thread started by
\* thrd_create, whose record is still allocated, and a thread that was not
\* started by thrd_create was joined with the default result 0
C10_Witness ==
    /\ tret.op = "thrd_join" /\ tret.line = 293 /\ tret.hasRes
    /\ thr[tret.h].ours /\ thr[tret.h].st = "exited" /\ ~out[tret.h].written
    /\ boxSt[thr[tret.h].arg] = "live"
    /\ \E g \in Handles :
          /\ ~thr[g].ours /\ thr[g].st = "joined"
          /\ out[g] = [written |-> TRUE, val |-> 0]

\* C11: when mtx_init returns, every attribute object it initialised has been
\* destroyed exactly once, on success, after a failed pthread_mutexattr_settype
\* and after a failed pthread_mutex_init; for an unsupported type it returns the
\* error with no attribute object initialised and pthread_mutex_init not called.
C11_AttrBalance ==
    [][/\ attr'.inits = attr'.destroys
       /\ attr'.inits <= 1
       /\ attr'.mutex_inits <= attr'.inits
       /\ mtype' # "none" => attr' = Resources(1, 1, 1)
       /\ \A t \in Threads :
             (last'[t].op = "mtx_init" /\ last'[t] # last[t]) =>
                 /\ last'[t].line \in {71, 78} =>
                       (last'[t].res = thrd_error /\ attr' = Resources(0, 0, 0))
                 /\ last'[t].line = 100 => (attr'.inits = 1 /\ attr'.destroys = 1)
                 /\ last'[t].res = thrd_success =>
                       (attr' = Resources(1, 1, 1) /\ mtype' # "none")
                 /\ last'[t].res # thrd_success => mtype' = "none"
                 /\ last'[t].line \in {71, 78, 100}
    ]_vars

\* C11 witness: a mtx_init call failed in pthread_mutexattr_settype and destroyed
\* the attribute object without a call of pthread_mutex_init, after another
\* thread's call was refused for an unsupported type
C11_Witness ==
    \E t, u \in Threads :
        /\ last[t] = Ret("mtx_init", thrd_error, 71, 0)
        /\ last[u] = Ret("mtx_init", thrd_error, 100, EINVAL)
        /\ attr = Resources(1, 1, 0)
        /\ mtype = "none"

(* ------------------------------------------------------------------ *)
(* Properties of thrd_sleep                                             *)
(* ------------------------------------------------------------------ *)
\* the values thrd_sleep returns for a hard error
HardErrorResults == {thrd_sleep_ret("invalid").res}

\* C12: thrd_sleep returns 0 exactly when the full duration has elapsed; when it
\* was interrupted the time left has been stored through remaining if that is
\* given, and the value it returns is not a value it returns for a hard error.
C12_SleepOutcomesDistinct ==
    \A t \in Threads :
        (pc[t] = "idle" /\ last[t].op = "thrd_sleep") =>
            /\ last[t].res = 0 <=> last[t].err = 0
            /\ last[t].res = 0 => ~remaining[t].written
            /\ last[t].err = EINTR =>
                  /\ remaining[t].given => remaining[t].written
                  /\ ~TimeBefore(duration[t], remaining[t].val)
                  /\ last[t].res \notin HardErrorResults

(* ------------------------------------------------------------------ *)
(* Properties of the condition variable                                 *)
(* ------------------------------------------------------------------ *)
\* this step is a return of cnd_timedwait to t
TimedwaitReturns(t) == last'[t].op = "cnd_timedwait" /\ last'[t] # last[t]

\* C13: cnd_timedwait returns success exactly when pthread_cond_timedwait
\* returned 0, which it does for a thread woken before its deadline; timed-out
\* exactly when it returned ETIMEDOUT, which it does after the deadline has
\* elapsed; and the generic error for every other value. In each case the caller
\* holds the mutex when the call returns.
C13_TimedwaitOutcomes ==
    [][\A t \in Threads :
          TimedwaitReturns(t) =>
              LET ret == last'[t] IN
              /\ pc'[t] = "idle"
              /\ ret.res = thrd_success <=> ret.err = 0
              /\ ret.res = thrd_timedout <=> ret.err = ETIMEDOUT
              /\ ret.res = thrd_error <=> ret.err \notin {0, ETIMEDOUT}
              /\ ret.err = ETIMEDOUT <=> (pc[t] = "cnd_timedwait" /\ wake[t] = "timeout")
              /\ ret.err = 0 <=>
                    (pc[t] = "cnd_timedwait" /\ wake[t] \in {"signal", "spurious"})
              /\ ret.err \notin {0, ETIMEDOUT} => (pc[t] = "idle" /\ owner = t)
              /\ owner' = t /\ count' = 1 /\ held'[t] = 1
    ]_vars

\* C13 witness: cnd_timedwait has returned timed-out to a thread, which holds the
\* mutex, while another thread woken by cnd_broadcast waits for the mutex inside
\* cnd_timedwait
C13_Witness ==
    \E t, u \in Threads :
        /\ last[t] = cnd_timedwait_ret(ETIMEDOUT) /\ last[t].res = thrd_timedout
        /\ pc[t] = "idle" /\ owner = t
        /\ pc[u] = "cnd_timedwait" /\ wake[u] = "signal"

\* C14: every thread that was blocked in cnd_wait when cnd_broadcast was called
\* eventually returns success from cnd_wait; a thread inside cnd_wait does not
\* hold the mutex, a cnd_wait that returns success has the mutex, and at most
\* one thread holds the mutex at any time.
C14_BroadcastWakesAll ==
    /\ [](/\ Cardinality(Holders) <= 1
          /\ \A t \in Holders : owner = t /\ pc[t] = "idle"
          /\ \A t \in Threads : pc[t] = "cnd_wait" => (owner # t /\ held[t] = 0)
          /\ \A t \in due : pc[t] = "cnd_wait")
    /\ [][\A t \in Threads :
             (pc[t] = "cnd_wait" /\ pc'[t] # "cnd_wait") =>
                 /\ last'[t] = cnd_wait_ret(0) /\ last'[t].res = thrd_success
                 /\ owner = NoThread /\ owner' = t /\ held'[t] = 1
         ]_vars
    /\ \A t \in Threads :
          (t \in due) ~> (pc[t] = "idle" /\ last[t] = cnd_wait_ret(0) /\ owner = t)

\* C14 witness: all the threads are blocked in cnd_wait and one cnd_broadcast has
\* just woken them all
C14_Witness ==
    /\ \A t \in Threads : pc[t] = "cnd_wait" /\ wake[t] = "signal"
    /\ due = Threads
    /\ bcast = cnd_broadcast_ret(0)
    /\ owner = NoThread

(* ------------------------------------------------------------------ *)
(* Properties of the polling loop of mtx_timedlock                      *)
(* ------------------------------------------------------------------ *)
\* this step is t's timeout check and choice of the sleep interval
CheckStep(t) == pc[t] = "tl_check" /\ pc'[t] # "tl_check"

\* C15: when the reading taken after a busy attempt is the deadline or later,
\* the iteration returns timed-out, with no sleep and no yield.
C15_TimesOutAtDeadline ==
    [][\A t \in Threads :
          (CheckStep(t) /\ ~TimeBefore(now[t], time_point)) =>
              (pc'[t] = "idle" /\ last'[t].res = thrd_timedout)
    ]_vars

\* a - b for normalised time values a >= b
TimeDiff(a, b) ==
    IF a.tv_nsec >= b.tv_nsec
    THEN Timespec(a.tv_sec - b.tv_sec, a.tv_nsec - b.tv_nsec)
    ELSE Timespec(a.tv_sec - b.tv_sec - 1,
                  a.tv_nsec - b.tv_nsec + THREADS_COMPAT_NANOS_PER_SECOND)

\* the smaller of two normalised time values
MinTime(a, b) == IF TimeBefore(a, b) THEN a ELSE b

\* C16: a thread about to sleep in mtx_timedlock sleeps for the smaller of the
\* check interval and the time from its clock reading to the deadline.
C16_SleepIsMinOfIntervalAndRemaining ==
    \A t \in Threads :
        pc[t] = "tl_sleep" =>
            sleep_time[t] = MinTime(CheckInterval, TimeDiff(time_point, now[t]))

\* the nanoseconds of a time value are in [0, 10^9)
Normalised(ts) == ts.tv_nsec >= 0 /\ ts.tv_nsec < THREADS_COMPAT_NANOS_PER_SECOND

\* C17: while mtx_timedlock polls, latest_full_sleep_start, which every
\* iteration compares with the clock reading, has its nanoseconds in [0, 10^9),
\* and so has the sleep_time passed to nanosleep.
C17_ComputedTimesNormalised ==
    \A t \in Threads :
        /\ Polling(t) => Normalised(latest_full_sleep_start[t])
        /\ pc[t] = "tl_sleep" => Normalised(sleep_time[t])

\* this step is t's call of mtx_timedlock up to the first acquisition attempt
EntryStep(t) ==
    /\ pc[t] = "idle"
    /\ \/ pc'[t] = "tl_try"
       \/ pc'[t] = "idle" /\ last'[t] # last[t] /\ last'[t].op = "mtx_timedlock"

\* C18: a call of mtx_timedlock on a mutex nobody holds gets to its first
\* acquisition attempt without a return before it, whatever the deadline, and
\* an attempt on the free mutex returns success at once (short of a failure of
\* pthread_mutex_trylock), with no clock reading, sleep or yield.
C18_FirstStepIsAttempt ==
    [][\A t \in Threads :
          owner = NoThread =>
              /\ EntryStep(t) => pc'[t] = "tl_try"
              /\ (pc[t] = "tl_try" /\ pc'[t] # "tl_try") =>
                    /\ pc'[t] = "idle"
                    /\ \/ last'[t] = TimedRet(thrd_success, 175, 0) /\ owner' = t
                       \/ last'[t].line \in FaultLines
    ]_vars

\* C19: the sleep interval an iteration chooses depends on the deadline and on
\* the iteration's clock reading only, and after a shorter sleep it is the full
\* check interval again when the reading leaves at least one check interval
\* until the deadline.
C19_NoStaleSleepInterval ==
    [][\A t \in Threads :
          (CheckStep(t) /\ pc'[t] \in {"tl_sleep", "tl_yield"}) =>
              /\ \A u \in Threads :
                    (u # t /\ pc[u] \in {"tl_sleep", "tl_yield"} /\ now[u] = now[t]) =>
                        sleep_time'[t] = sleep_time[u]
              /\ (/\ TimeBefore(sleep_time[t], CheckInterval)
                  /\ ~TimeBefore(TimeDiff(time_point, now[t]), CheckInterval)) =>
                    sleep_time'[t] = CheckInterval
    ]_vars

\* a time value with a negative component
Negative(ts) == ts.tv_sec < 0 \/ ts.tv_nsec < 0

\* C20: a call whose latest_full_sleep_start comes out with a negative component
\* returns the generic error before its first attempt, with the mutex as it
\* was; the time left that an iteration computes after the timeout check is never
\* negative, no sleep is made with a negative interval, and the error returns
\* that guard it (lines 210 and 214) are never taken.
C20_NegativeTimeFailsFast ==
    [][\A t \in Threads :
          /\ EntryStep(t) =>
                /\ Negative(LatestFullSleepStart(time_point)) <=>
                      (pc'[t] = "idle" /\ last'[t].line \in {165, 169})
                /\ pc'[t] = "idle" => (last'[t].res = thrd_error /\ MutexUntouched(t))
          /\ CheckStep(t) =>
                /\ ~TimeBefore(time_point, now[t]) =>
                      ~Negative(BorrowOnce(time_point.tv_sec - now[t].tv_sec,
                                           time_point.tv_nsec - now[t].tv_nsec))
                /\ pc'[t] = "idle" => last'[t] = TimedRet(thrd_timedout, 190, TIME_UTC)
                /\ pc'[t] = "tl_sleep" => ~Negative(sleep_time'[t])
          /\ last'[t].line \notin {210, 214}
    ]_vars

\* C20 witness: a call with a deadline in the first second has returned the
\* generic error for the negative seconds of latest_full_sleep_start, and another
\* thread holds the mutex as before
C20_Witness ==
    \E t, u \in Threads :
        /\ Negative(LatestFullSleepStart(time_point))
        /\ last[t] = TimedRet(thrd_error, 169, 0)
        /\ pc[t] = "idle" /\ held[t] = 0
        /\ owner = u /\ u # t

(* ------------------------------------------------------------------ *)
(* Termination of mtx_timedlock                                         *)
(* ------------------------------------------------------------------ *)
\* the results of the terminal states Acquired, TimedOut and Failed
TerminalResults == {thrd_success, thrd_timedout, thrd_error}

\* t's last call was mtx_timedlock and it has returned
Terminated(t) ==
    /\ pc[t] = "idle"
    /\ last[t].op = "mtx_timedlock"
    /\ last[t].res \in TerminalResults

\* some step of the loop of mtx_timedlock can be taken by t
LoopStepEnabled(t) ==
    ENABLED (tl_try(t) \/ tl_clock(t) \/ tl_check(t) \/ tl_yield(t) \/ tl_sleep(t))

\* C21: with fair scheduling and a clock that gets past the deadline, no call of
\* mtx_timedlock stays in its loop for ever, whether or not the mutex is ever
\* released, and a call leaves the loop by returning success, timed-out or the
\* generic error. From one attempt
\* that found the mutex busy to the next attempt there is one sched_yield or
\* one nanosleep, the sleep being for a non-negative time that is at most the
\* check interval or ends at the deadline at the latest. A call that has
\* returned takes no further step of the loop.
C21_TimedlockTerminates ==
    /\ \A t \in Threads : []<>(~Polling(t))
    /\ [][\A t \in Threads :
             /\ (Polling(t) /\ pc'[t] = "idle") => Terminated(t)'
             /\ (pc[t] \in {"tl_yield", "tl_sleep"} /\ pc'[t] # pc[t] /\ pc'[t] # "idle")
                    => pc'[t] = "tl_try"
             /\ (CheckStep(t) /\ pc'[t] # "idle") =>
                    /\ pc'[t] = "tl_yield" <=> sleep_time'[t] = ZeroTime
                    /\ pc'[t] = "tl_sleep" <=> sleep_time'[t] # ZeroTime
                    /\ ~Negative(sleep_time'[t])
                    /\ \/ ~TimeBefore(CheckInterval, sleep_time'[t])
                       \/ sleep_time'[t] = TimeDiff(time_point, now[t])
             /\ (pc[t] = "tl_try" /\ pc'[t] # "tl_try" /\ pc'[t] # "idle")
                    => pc'[t] = "tl_clock"
             /\ (pc[t] = "tl_clock" /\ pc'[t] # "tl_clock" /\ pc'[t] # "idle")
                    => pc'[t] = "tl_check"
      ]_vars
    /\ [](\A t \in Threads : pc[t] = "idle" => ~LoopStepEnabled(t))

\* C21 witness: a call has returned timed-out from its loop while another
\* thread held the mutex, and that thread holds it still
C21_Witness ==
    \E t, u \in Threads :
        /\ u # t
        /\ owner = u
        /\ Terminated(t)
        /\ last[t] = TimedRet(thrd_timedout, 190, TIME_UTC)

(* ------------------------------------------------------------------ *)
(* Order of the accesses to a result box                                *)
(* ------------------------------------------------------------------ *)
\* the states of a spawned thread that exists and has not ended
Running == {"started", "ran"}

\* C22: the accesses to a result box are ordered. thrd_create touches the box
\* only before pthread_create has created the thread, the spawned thread only
\* while it runs, thrd_join only when the thread has ended, so no two of them
\* access it at the same time; thrd_join reads the result only after the spawned
\* thread has stored it; and no access follows the free of the box.
C22_BoxAccessOrdered ==
    \A b \in Boxes :
        LET log == boxAcc[b] IN
        /\ \A i \in 1..Len(log) :
              /\ log[i].by = "thrd_create" => log[i].thread = "none"
              /\ log[i].by = "wrap_thread_func" => log[i].thread \in Running
              /\ log[i].by = "thrd_join" => log[i].thread = "exited"
              /\ (log[i].by = "thrd_join" /\ log[i].what = "read") =>
                    \E j \in 1..(i - 1) :
                        log[j].by = "wrap_thread_func" /\ log[j].what = "write"
              /\ log[i].what = "free" => i = Len(log)
              /\ \A j \in 1..(i - 1) :
                    /\ log[i].by = "thrd_create" => log[j].by = "thrd_create"
                    /\ log[j].by = "thrd_join" => log[i].by = "thrd_join"
        /\ boxSt[b] = "freed" <=> (log # <<>> /\ log[Len(log)].what = "free")
        /\ boxSt[b] = "unused" <=> log = <<>>

\* C22 witness: a box was set up by thrd_create, used by the spawned thread,
\* read and freed by thrd_join, in this order
C22_Witness ==
    \E b \in Boxes :
        boxAcc[b] = <<Access("thrd_create", "write", "none"),
                      Access("thrd_create", "write", "none"),
                      Access("wrap_thread_func", "read", "started"),
                      Access("wrap_thread_func", "write", "started"),
                      Access("thrd_join", "read", "exited"),
                      Access("thrd_join", "free", "exited")>>

====
